---------------------------- MODULE Spec2Model ----------------------------
(***************************************************************************)
(* PlanPalDO: the per-user Durable Object of PlanPal                       *)
(* (src/backend/src/PlanPalDO.ts).  One instance owns three storage keys   *)
(* ("memory", "reminders", "notifications") and the single storage alarm.  *)
(*                                                                         *)
(* Time is epoch milliseconds.  The clock advances in steps of one         *)
(* tolerance window (1000 ms), so stored instants lie on that grid, while  *)
(* a request may also carry an instant one millisecond off the grid.       *)
(***************************************************************************)
EXTENDS Integers, Sequences, FiniteSets, TLC

\* ------------------------------------------------------------------ bounds
MaxCreates == 2      \* successful createReminder calls in one behaviour
MaxTicks == 1        \* clock steps in one behaviour
MaxChats == 2        \* chat requests in one behaviour
AllCreates == 1      \* createReminder calls where chats and reminders mix
AllChats == 1        \* chat requests where chats and reminders mix
TracedCreates == 1   \* createReminder calls where requests are traced
MaxOverlap == 2      \* handlers begun before all of them have returned
MaxStops == 1        \* times alarm() stops before it has finished

\* ------------------------------------------------------- program constants
TOLERANCE == 1000    \* "Date.now() - 1000" in POST /reminders

StartTime == 2 * TOLERANCE
EndTime == StartTime + MaxTicks * TOLERANCE

\* The instants a stored reminder can carry: the clock's grid, from one
\* tolerance window before the start to the end.
Grid == { StartTime + k * TOLERANCE : k \in -1 .. MaxTicks }

VARIABLES
    reminders,      \* storage key "reminders": sequence of {id, at, text}
    notifications,  \* storage key "notifications": sequence of {id, at, text}
    alarm,          \* the storage alarm: {} when none is set, {t} when set for t
    memory,         \* storage key "memory": sequence of {role, content}
    thisMemory,     \* the instance field this.memory
    chats,          \* the POST /chat requests: where each stands, and its locals
    env,            \* the bindings MODEL and MODEL_FALLBACKS
    now,            \* Date.now()
    idSeq,          \* number of reminder ids generated so far
    resp,           \* outcome of the handler that ran last, until its caller takes it
    pre,            \* history: the storage as that handler found it
    acks,           \* history: per reminder id, the acknowledging polls that returned it
    calls,          \* reminder handlers and alarm() in flight, await by await
    hist,           \* history: the storage when calls last left empty, and the
                    \* handlers that have returned since
    req,            \* history, where requests are traced: the path id and the
                    \* body of the request whose outcome resp is, and the polls
                    \* made one after the other
    peer,           \* the storage of the object of another user key
    state,          \* the Agent variant: this.state of the Chat agent
    posts           \* the Agent variant: its POST requests, awaiting AI.run or over

remVars == <<reminders, notifications, alarm, now, idSeq, acks>>
chatVars == <<memory, thisMemory, chats, env>>
stepVars == <<calls, hist>>
agentVars == <<state, posts>>
vars == <<reminders, notifications, alarm, memory, thisMemory, chats, env,
          now, idSeq, resp, pre, acks, calls, hist, req, peer, state, posts>>

\* ----------------------------------------------------------------- values
\* A JavaScript number that may be +Infinity or NaN is a set: {n} is the
\* finite number n, {} is the non-finite value.
Num(n) == {n}
NonFinite == {}
IsFinite(x) == x # {}
Val(x) == CHOOSE n \in x : TRUE

SeqToSet(s) == { s[i] : i \in 1 .. Len(s) }
Ids(s) == { s[i].id : i \in 1 .. Len(s) }

\* Response bodies; unused fields keep their empty value.
NoResp ==
    [op |-> "none", status |-> 0, error |-> "", items |-> <<>>, deleted |-> 0,
     text |-> "", memory |-> <<>>]
Ok(op, items) == [NoResp EXCEPT !.op = op, !.status = 200, !.items = items]
Err(op, status, error) == [NoResp EXCEPT !.op = op, !.status = status, !.error = error]

\* -------------------------------------------------------- scheduleNextAlarm
\* A stored `at` is a number of the clock's range or Infinity (the JSON
\* number 1e999), held as an instant beyond every instant of the clock so
\* that it compares as Infinity does.
PosInfinity == EndTime + TOLERANCE
\* The stored `at` as a JavaScript number.
AsNumber(at) == IF at = PosInfinity THEN NonFinite ELSE Num(at)

\* list.reduce((min, r) => Math.min(min, r.at), Number.POSITIVE_INFINITY)
RECURSIVE ReduceMin(_, _)
ReduceMin(list, min) ==
    IF list = <<>> THEN min
    ELSE LET at == Head(list).at
             m == IF ~IsFinite(min) THEN AsNumber(at)
                  ELSE IF at < Val(min) THEN Num(at) ELSE min
         IN ReduceMin(Tail(list), m)

\* Mutant: setAlarm is never called.
NeverArms(list, before) == before

\* The alarm after scheduleNextAlarm(list), given the alarm before the call:
\* an empty list returns early, a finite minimum is handed to setAlarm.
ScheduleNextAlarm(list, before) ==
    IF Len(list) = 0 THEN before
    ELSE LET nextAt == ReduceMin(list, NonFinite)
         IN IF IsFinite(nextAt) THEN nextAt ELSE before

\* ------------------------------------------------------------ request data
\* An optional JSON field is a set: {} when the field is absent, {v} when it
\* carries v.  A text is a string.  An `at` is a record: a JSON number
\* (type "number", ms = {n}) or a string (type "string") with ms what
\* Date.parse reads from it: {n} for a date text of instant n, {} (NaN) for
\* any other text, the empty one included.
NumAt(n) == [type |-> "number", str |-> "", ms |-> Num(n)]
DateAt(n) == [type |-> "string", str |-> "date", ms |-> Num(n)]
TextAt(s) == [type |-> "string", str |-> s, ms |-> NonFinite]

DateParse(at) == at.ms
\* typeof at === "number" ? at : Date.parse(at)
WhenMs(at) == IF at.type = "number" THEN at.ms ELSE DateParse(at)
IsNaN(x) == ~IsFinite(x)

\* !text and !at of JavaScript, for the values a body can carry.
FalsyText(text) == text = {} \/ text = {""}
FalsyAt(at) ==
    \/ at = {}
    \/ \E a \in at : \/ a.type = "number" /\ a.ms = Num(0)
                     \/ a.type = "string" /\ a.str = ""

TextInputs == {"", "a"}
AtInputs ==
    { NumAt(n) : n \in Grid \cup {0, now - TOLERANCE - 1} }
        \cup { DateAt(n) : n \in {EndTime} }
        \cup { TextAt(s) : s \in {"", "tomorrow"} }
Optional(S) == {{}} \cup { {v} : v \in S }
Bodies == [text : Optional(TextInputs), at : Optional(AtInputs)]
\* The Worker hands the body of a PATCH to the object as it came, so its
\* `at` can also be the number 1e999, which JSON.parse reads as Infinity.
\* (The body of a POST is written again by the Worker, where Infinity
\* becomes null, a missing `at`.)
PatchBodies == [text : Optional(TextInputs),
                at : Optional(AtInputs \cup {[type |-> "number", str |-> "", ms |-> {PosInfinity}]})]
NoBody == [text |-> {}, at |-> {}]
\* No request; no poll made yet (ack -1: the last handler was no
\* acknowledging poll); no user key addressed; no id generated yet.
NoReq ==
    [id |-> 0, body |-> NoBody, param |-> {}, peeks |-> 0, peeked |-> <<>>, ack |-> -1,
     afterAck |-> -1, user |-> "", made |-> <<>>, gone |-> <<>>]

\* Path ids: 0 is the empty segment of "/reminders/", n > 0 the n-th id
\* createReminder generated (issued or not yet).
PathIds == 0 .. MaxCreates

\* Mutant: an id that is not found falls on the first reminder.
FindIndexOrFirst(list, id) ==
    IF \E i \in 1 .. Len(list) : list[i].id = id
    THEN CHOOSE i \in 1 .. Len(list) :
            /\ list[i].id = id
            /\ \A j \in 1 .. (i - 1) : list[j].id # id
    ELSE IF list = <<>> THEN 0 ELSE 1

\* reminders.findIndex(r => r.id === id), 0 for -1.
FindIndex(list, id) ==
    IF \E i \in 1 .. Len(list) : list[i].id = id
    THEN CHOOSE i \in 1 .. Len(list) :
            /\ list[i].id = id
            /\ \A j \in 1 .. (i - 1) : list[j].id # id
    ELSE 0

\* Mutant: the reminders created before the addressed one go with it.
FilterFrom(list, id) == SelectSeq(list, LAMBDA r : r.id > id)

\* reminders.filter(r => r.id !== id)
FilterOut(list, id) == SelectSeq(list, LAMBDA r : r.id # id)

\* Mutant: the list is returned as stored.
Unsorted(list) == list

\* reminders.sort((a, b) => a.at - b.at): Array.prototype.sort is stable.
RECURSIVE InsertByAt(_, _)
InsertByAt(sorted, r) ==
    IF sorted = <<>> THEN <<r>>
    ELSE IF r.at < Head(sorted).at THEN <<r>> \o sorted
    ELSE <<Head(sorted)>> \o InsertByAt(Tail(sorted), r)
RECURSIVE SortByAt(_)
SortByAt(list) ==
    IF list = <<>> THEN <<>>
    ELSE InsertByAt(SortByAt(SubSeq(list, 1, Len(list) - 1)), list[Len(list)])

\* ------------------------------------------------------------------ storage
\* The three keys a reminder handler reads or writes, as one record.
Store == [reminders |-> reminders, notifications |-> notifications, alarm |-> alarm]
Snapshot == [reminders |-> reminders, notifications |-> notifications,
             alarm |-> alarm, memory |-> memory, messages |-> state.messages]
NoPre == [reminders |-> <<>>, notifications |-> <<>>, alarm |-> {}, memory |-> <<>>,
          messages |-> <<>>]

\* A handler ends: its writes reach the storage, its response its caller.
Finish(store, response) ==
    /\ reminders' = store.reminders
    /\ notifications' = store.notifications
    /\ alarm' = store.alarm
    /\ resp' = response
    /\ pre' = Snapshot

\* The storage of an object no request has reached yet; made counts the
\* ids it has generated.
NoPeer == [reminders |-> <<>>, notifications |-> <<>>, alarm |-> {}, memory |-> <<>>, made |-> 0]

InitStorage ==
    /\ reminders = <<>>
    /\ notifications = <<>>
    /\ alarm = {}
    /\ memory = <<>>
    /\ thisMemory = <<>>
    /\ chats = <<>>
    /\ now = StartTime
    /\ idSeq = 0
    /\ resp = NoResp
    /\ pre = NoPre
    /\ acks = [id \in 1 .. MaxCreates |-> 0]
    /\ calls = <<>>
    /\ req = NoReq
    /\ peer = NoPeer
    /\ hist = [base |-> [reminders |-> <<>>, notifications |-> <<>>, alarm |-> {}],
               ops |-> <<>>]

\* initialState: ChatState = { messages: [] } of the Agent variant.
initialState == [messages |-> <<>>, user |-> {}]
InitAgentVars == state = initialState /\ posts = <<>>

Init == InitStorage /\ env = [MODEL |-> "", MODEL_FALLBACKS |-> <<"">>] /\ InitAgentVars
InitChat ==
    /\ InitAgentVars
    /\ InitStorage
    /\ env \in [MODEL : {"", "m1", "@cf/meta/llama-3.1-8b-instruct"},
                MODEL_FALLBACKS : {<<"">>, <<" m3 ", " ">>}]

\* The platform clock.
Tick ==
    /\ resp = NoResp
    /\ now < EndTime
    /\ now' = now + TOLERANCE
    /\ UNCHANGED <<reminders, notifications, alarm, idSeq, acks, resp, pre, chatVars, stepVars, peer, agentVars, req>>

\* The caller takes the outcome of its request (the platform, that of
\* alarm()).  A handler is taken up only when the outcome before it is taken.
Reply ==
    /\ resp # NoResp
    /\ resp' = NoResp
    /\ pre' = NoPre
    /\ UNCHANGED <<remVars, chatVars, stepVars, peer, agentVars>>

\* ------------------------------------------------------------ GET /reminders
\* Mutant: the sort is made on the stored list itself.
ListHandlerSortsStored(s) ==
    [store |-> [s EXCEPT !.reminders = SortByAt(s.reminders)],
     resp |-> Ok("list", SortByAt(s.reminders))]

ListHandler(s) == [store |-> s, resp |-> Ok("list", SortByAt(s.reminders))]

ListReminders ==
    /\ resp = NoResp
    /\ LET o == ListHandler(Store) IN Finish(o.store, o.resp)
    /\ UNCHANGED <<now, idSeq, acks, chatVars, stepVars, peer, agentVars>>

\* -------------------------------------------------------- GET /reminders/due
\* Mutants: the parameter has to be given for the poll to acknowledge; the
\* acknowledging poll forgets to clear the queue; every poll clears it.
AckOfExplicit(param) == param = {"true"}
AfterPollKeeps(ack, stored) == stored
AfterPollClears(ack, stored) == <<>>

\* url.searchParams.get("ack") !== "false"
AckOf(param) == param # {"false"}

\* What the handler leaves under "notifications".
AfterPoll(ack, stored) == IF ack THEN <<>> ELSE stored

PollHandler(s, param) ==
    [store |-> [s EXCEPT !.notifications = AfterPoll(AckOf(param), s.notifications)],
     resp |-> Ok(IF AckOf(param) THEN "due-ack" ELSE "due-peek", s.notifications)]

PollDue(param) ==
    /\ resp = NoResp
    /\ LET o == PollHandler(Store, param) IN Finish(o.store, o.resp)
    /\ acks' = [id \in DOMAIN acks |->
                  IF AckOf(param) /\ id \in Ids(notifications) THEN acks[id] + 1 ELSE acks[id]]
    /\ UNCHANGED <<now, idSeq, chatVars, stepVars, peer, agentVars>>

\* ----------------------------------------------------------- POST /reminders
\* The id `r-${Date.now()}-${Math.random()...}`: the n-th id generated is n
\* (the random suffix is taken never to repeat within a session).
NewId == idSeq + 1

CreateError(body, t) ==
    IF FalsyText(body.text) \/ FalsyAt(body.at) THEN "Missing text or at"
    ELSE IF IsNaN(WhenMs(Val(body.at))) THEN "Invalid date/time"
    ELSE IF Val(WhenMs(Val(body.at))) < t - TOLERANCE THEN "Time must be in the future"
    ELSE ""

\* Mutant: the list is stored before the instant is checked.
CreateHandlerSavesFirst(s, body, t, id) ==
    IF CreateError(body, t) = "Time must be in the future"
    THEN LET r == [id |-> id, at |-> Val(WhenMs(Val(body.at))), text |-> Val(body.text)]
         IN [store |-> [s EXCEPT !.reminders = Append(s.reminders, r)],
             resp |-> Err("create", 400, CreateError(body, t))]
    ELSE IF CreateError(body, t) # ""
    THEN [store |-> s, resp |-> Err("create", 400, CreateError(body, t))]
    ELSE LET r == [id |-> id, at |-> Val(WhenMs(Val(body.at))), text |-> Val(body.text)]
             list == Append(s.reminders, r)
         IN [store |-> [s EXCEPT !.reminders = list,
                                 !.alarm = ScheduleNextAlarm(list, s.alarm)],
             resp |-> Ok("create", <<r>>)]

\* Mutant: the new reminder is queued as a notification as well.
CreateHandlerNotifies(s, body, t, id) ==
    IF CreateError(body, t) # ""
    THEN [store |-> s, resp |-> Err("create", 400, CreateError(body, t))]
    ELSE LET r == [id |-> id, at |-> Val(WhenMs(Val(body.at))), text |-> Val(body.text)]
             list == Append(s.reminders, r)
         IN [store |-> [s EXCEPT !.reminders = list,
                                 !.notifications = Append(@, r),
                                 !.alarm = ScheduleNextAlarm(list, s.alarm)],
             resp |-> Ok("create", <<r>>)]

CreateHandler(s, body, t, id) ==
    IF CreateError(body, t) # ""
    THEN [store |-> s, resp |-> Err("create", 400, CreateError(body, t))]
    ELSE LET r == [id |-> id, at |-> Val(WhenMs(Val(body.at))), text |-> Val(body.text)]
             list == Append(s.reminders, r)
         IN [store |-> [s EXCEPT !.reminders = list,
                                 !.alarm = ScheduleNextAlarm(list, s.alarm)],
             resp |-> Ok("create", <<r>>)]

CreateReminder(body) ==
    /\ resp = NoResp
    /\ LET o == CreateHandler(Store, body, now, NewId)
       IN /\ o.resp.status = 200 => idSeq < MaxCreates
          /\ Finish(o.store, o.resp)
          /\ idSeq' = IF o.resp.status = 200 THEN NewId ELSE idSeq
    /\ UNCHANGED <<now, acks, chatVars, stepVars, peer, agentVars>>

\* ------------------------------------------------------ PATCH /reminders/:id
\* Mutant: the merged reminder is taken out and pushed at the end.
MergeToEnd(list, idx, body) ==
    LET r0 == list[idx]
        r1 == IF body.text # {} THEN [r0 EXCEPT !.text = Val(body.text)] ELSE r0
        r2 == IF body.at # {} THEN [r1 EXCEPT !.at = Val(WhenMs(Val(body.at)))] ELSE r1
    IN Append(SubSeq(list, 1, idx - 1) \o SubSeq(list, idx + 1, Len(list)), r2)

\* The local copy of the list after the merge of the provided fields.
Merge(list, idx, body) ==
    LET r0 == list[idx]
        r1 == IF body.text # {} THEN [r0 EXCEPT !.text = Val(body.text)] ELSE r0
        r2 == IF body.at # {} THEN [r1 EXCEPT !.at = Val(WhenMs(Val(body.at)))] ELSE r1
    IN [list EXCEPT ![idx] = r2]

\* Mutant: the list is stored as soon as the text is merged.
UpdateHandlerSavesText(s, id, body) ==
    LET idx == FindIndex(s.reminders, id) IN
    IF id = 0 THEN [store |-> s, resp |-> Err("update", 400, "Missing reminder id")]
    ELSE IF idx = 0 THEN [store |-> s, resp |-> Err("update", 404, "Reminder not found")]
    ELSE IF body.at # {} /\ IsNaN(WhenMs(Val(body.at)))
    THEN [store |-> [s EXCEPT !.reminders = Merge(s.reminders, idx, [body EXCEPT !.at = {}])],
          resp |-> Err("update", 400, "Invalid date/time")]
    ELSE LET list == Merge(s.reminders, idx, body)
         IN [store |-> [s EXCEPT !.reminders = list,
                                 !.alarm = ScheduleNextAlarm(list, s.alarm)],
             resp |-> Ok("update", <<list[idx]>>)]

UpdateHandler(s, id, body) ==
    LET idx == FindIndex(s.reminders, id) IN
    IF id = 0 THEN [store |-> s, resp |-> Err("update", 400, "Missing reminder id")]
    ELSE IF idx = 0 THEN [store |-> s, resp |-> Err("update", 404, "Reminder not found")]
    ELSE IF body.at # {} /\ IsNaN(WhenMs(Val(body.at)))
    THEN [store |-> s, resp |-> Err("update", 400, "Invalid date/time")]
    ELSE LET list == Merge(s.reminders, idx, body)
         IN [store |-> [s EXCEPT !.reminders = list,
                                 !.alarm = ScheduleNextAlarm(list, s.alarm)],
             resp |-> Ok("update", <<list[idx]>>)]

UpdateReminder(id, body) ==
    /\ resp = NoResp
    /\ LET o == UpdateHandler(Store, id, body) IN Finish(o.store, o.resp)
    /\ UNCHANGED <<now, idSeq, acks, chatVars, stepVars, peer, agentVars>>

\* ----------------------------------------------------- DELETE /reminders/:id
\* Mutant: the alarm is recomputed from the list as it was before the filter.
DeleteHandlerStaleList(s, id) ==
    LET next == FilterOut(s.reminders, id) IN
    IF id = 0 THEN [store |-> s, resp |-> Err("delete", 400, "Missing reminder id")]
    ELSE IF Len(next) = Len(s.reminders)
    THEN [store |-> s, resp |-> Err("delete", 404, "Reminder not found")]
    ELSE [store |-> [s EXCEPT !.reminders = next,
                              !.alarm = ScheduleNextAlarm(s.reminders, s.alarm)],
          resp |-> [Ok("delete", <<>>) EXCEPT !.deleted = id]]

DeleteHandler(s, id) ==
    LET next == FilterOut(s.reminders, id) IN
    IF id = 0 THEN [store |-> s, resp |-> Err("delete", 400, "Missing reminder id")]
    ELSE IF Len(next) = Len(s.reminders)
    THEN [store |-> s, resp |-> Err("delete", 404, "Reminder not found")]
    ELSE [store |-> [s EXCEPT !.reminders = next,
                              !.alarm = ScheduleNextAlarm(next, s.alarm)],
          resp |-> [Ok("delete", <<>>) EXCEPT !.deleted = id]]

DeleteReminder(id) ==
    /\ resp = NoResp
    /\ LET o == DeleteHandler(Store, id) IN Finish(o.store, o.resp)
    /\ UNCHANGED <<now, idSeq, acks, chatVars, stepVars, peer, agentVars>>

\* -------------------------------------------------------------------- alarm()
\* Mutants: a reminder due exactly now is not taken as due; the due
\* reminders stay in the list.
DueStrict(list, t) == SelectSeq(list, LAMBDA r : r.at < t)
FutureKeepsAll(list, t) == list

\* Mutant: the due reminders are taken from the end of the list.
DueLatestFirst(list, t) ==
    LET due == SelectSeq(list, LAMBDA r : r.at <= t)
    IN [i \in 1 .. Len(due) |-> due[Len(due) + 1 - i]]

\* for (const r of reminders) if (r.at <= now) due.push(r); else future.push(r)
Due(list, t) == SelectSeq(list, LAMBDA r : r.at <= t)
Future(list, t) == SelectSeq(list, LAMBDA r : r.at > t)

\* Mutant: the due reminders are put ahead of the stored notifications.
AlarmNotificationsDueFirst(stored, due) == due \o stored

\* What alarm() leaves under "notifications": written only when something is due.
AlarmNotifications(stored, due) == IF Len(due) > 0 THEN stored \o due ELSE stored

\* Mutant: the alarm that fired is still set when nothing is armed anew.
AlarmHandlerKeepsAlarm(s, t) ==
    LET due == Due(s.reminders, t)
        future == Future(s.reminders, t)
    IN [store |-> [reminders |-> future,
                   notifications |-> AlarmNotifications(s.notifications, due),
                   alarm |-> ScheduleNextAlarm(future, s.alarm)],
        resp |-> [NoResp EXCEPT !.op = "alarm"]]

\* alarm() at instant t.  The alarm that fired is no longer set when the
\* handler starts.
AlarmHandler(s, t) ==
    LET due == Due(s.reminders, t)
        future == Future(s.reminders, t)
    IN [store |-> [reminders |-> future,
                   notifications |-> AlarmNotifications(s.notifications, due),
                   alarm |-> ScheduleNextAlarm(future, {})],
        resp |-> [NoResp EXCEPT !.op = "alarm"]]

\* The platform runs alarm() once the alarm's instant is reached.
AlarmFire ==
    /\ resp = NoResp
    /\ alarm # {}
    /\ now >= Val(alarm)
    /\ LET o == AlarmHandler(Store, now) IN Finish(o.store, o.resp)
    /\ UNCHANGED <<now, idSeq, acks, chatVars, stepVars, peer, agentVars>>

\* ---------------------------------------------------------------- GET /memory
GetMemory ==
    /\ resp = NoResp
    /\ resp' = [NoResp EXCEPT !.op = "memory", !.status = 200, !.memory = memory]
    /\ pre' = Snapshot
    /\ UNCHANGED <<remVars, chatVars, stepVars, peer, agentVars>>

\* ----------------------------------------------------------------- POST /chat
SystemMessage == [role |-> "system", content |-> "You are PlanPal"]
User(content) == [role |-> "user", content |-> content]
Assistant(content) == [role |-> "assistant", content |-> content]

BuiltIn == <<"@cf/meta/llama-3.1-8b-instruct", "@cf/meta/llama-3-8b-instruct">>

\* s.trim(), for the strings a binding carries here.
Trim(s) == CASE s = " " -> "" [] s = " m3 " -> "m3" [] OTHER -> s
RECURSIVE MapTrim(_)
MapTrim(list) == IF list = <<>> THEN <<>> ELSE <<Trim(Head(list))>> \o MapTrim(Tail(list))
\* .filter(Boolean) on strings
FilterBoolean(list) == SelectSeq(list, LAMBDA m : m # "")

\* MODEL_FALLBACKS is held as its comma-separated pieces, (x || "").split(",").
CandidateModels(e) ==
    FilterBoolean(<<Trim(e.MODEL)>> \o BuiltIn \o FilterBoolean(MapTrim(e.MODEL_FALLBACKS)))

\* msg.includes(part), for the messages AI.run fails with here.
ErrorMessages == {"No such model", "InferenceUpstreamError: 5007", "Capacity temporarily exceeded"}
Includes(msg, part) ==
    \/ msg = part
    \/ msg = "InferenceUpstreamError: 5007" /\ part = "5007"
\* Mutant: every error is taken for a missing model.
AnyError(msg) == TRUE

\* msg.includes("No such model") || msg.includes("5007")
Unavailable(msg) == Includes(msg, "No such model") \/ Includes(msg, "5007")

\* Mutant: after a failure the loop goes to the last candidate.
LastCandidate(models, n) == IF n = 0 THEN models[1] ELSE models[Len(models)]

\* for (const model of candidateModels): the candidate after n of them.
NextCandidate(models, n) == models[n + 1]

ChatInputs == {"u1", "u2"}
ChatReplies == {"a1", "a2"}

\* Mutant: the system prompt is put on this.memory with the user message.
PushedWithSystem(stored, input) == <<SystemMessage>> \o Append(stored, User(input))

\* this.memory = stored; this.memory.push({ role: "user", content: input })
Pushed(stored, input) == Append(stored, User(input))

\* const messages = [{ role: "system", ... }, ...this.memory]
Messages(mem) == <<SystemMessage>> \o mem

\* Mutant: the first "missing model" error is the one kept.
RecordedFirst(lastError, msg) == IF lastError # "" THEN lastError ELSE msg

\* lastError = err
Recorded(lastError, msg) == msg

\* throw lastError || new Error("No available model succeeded")
Exhausted(lastError) == IF lastError # "" THEN lastError ELSE "No available model succeeded"

\* The Worker's catch: a throw of the object's fetch becomes a 500 whose
\* details are the error's message.
WorkerCatch(op, message) == [NoResp EXCEPT !.op = op, !.status = 500, !.error = message]

\* The request has read its body and the stored memory, pushed the user
\* message on this.memory, built the prompt and called the first candidate.
ChatStart(input) ==
    /\ resp = NoResp
    /\ Len(chats) < MaxChats
    /\ LET mem == Pushed(memory, input)
       IN /\ thisMemory' = mem
          /\ chats' = Append(chats,
                [pc |-> "ai", input |-> input, stored |-> memory, messages |-> Messages(mem),
                 tried |-> <<NextCandidate(CandidateModels(env), 0)>>,
                 usedModel |-> "", lastError |-> "", reply |-> "",
                 err |-> "", thrown |-> ""])
    /\ UNCHANGED <<stepVars, peer, agentVars, remVars, resp, pre, memory, env>>

\* AI.run of request c resolves: the reply is pushed on this.memory, which
\* is then stored.
ChatModelOk(c, reply) ==
    /\ resp = NoResp
    /\ chats[c].pc = "ai"
    /\ LET mem == Append(thisMemory, Assistant(reply))
       IN /\ thisMemory' = mem
          /\ memory' = mem
    /\ chats' = [chats EXCEPT ![c].pc = "done", ![c].reply = reply,
                                ![c].usedModel = chats[c].tried[Len(chats[c].tried)]]
    /\ resp' = [NoResp EXCEPT !.op = "chat", !.status = 200, !.text = reply]
    /\ pre' = Snapshot
    /\ UNCHANGED <<stepVars, peer, agentVars, remVars, env>>

\* AI.run of request c rejects with msg (kept in err): after a "missing
\* model" error the error is recorded and the next candidate is called, or
\* the recorded error is thrown when none is left; any other error is thrown
\* at once.  The Worker turns the throw into a 500.
ChatModelFail(c, msg) ==
    /\ resp = NoResp
    /\ chats[c].pc = "ai"
    /\ LET models == CandidateModels(env)
           n == Len(chats[c].tried)
           last == Recorded(chats[c].lastError, msg)
       IN IF Unavailable(msg)
          THEN IF n < Len(models)
               THEN /\ chats' = [chats EXCEPT ![c].lastError = last, ![c].err = msg,
                                              ![c].tried = Append(@, NextCandidate(models, n))]
                    /\ UNCHANGED <<resp, pre>>
               ELSE /\ chats' = [chats EXCEPT ![c].pc = "failed", ![c].lastError = last,
                                              ![c].err = msg, ![c].thrown = Exhausted(last)]
                    /\ resp' = WorkerCatch("chat", Exhausted(last))
                    /\ pre' = Snapshot
          ELSE /\ chats' = [chats EXCEPT ![c].pc = "failed", ![c].err = msg, ![c].thrown = msg]
               /\ resp' = WorkerCatch("chat", msg)
               /\ pre' = Snapshot
    /\ UNCHANGED <<stepVars, peer, agentVars, remVars, memory, thisMemory, env>>

NextReminders ==
    \/ Tick
    \/ Reply /\ UNCHANGED req
    \/ ListReminders /\ UNCHANGED req
    \/ \E param \in Optional({"true", "false"}) : PollDue(param) /\ UNCHANGED req
    \/ \E body \in Bodies : CreateReminder(body) /\ UNCHANGED req
    \/ \E id \in PathIds, body \in PatchBodies : UpdateReminder(id, body) /\ UNCHANGED req
    \/ \E id \in PathIds : DeleteReminder(id) /\ UNCHANGED req
    \/ AlarmFire /\ UNCHANGED req

NextChat ==
    \/ Reply /\ UNCHANGED req
    \/ GetMemory /\ UNCHANGED req
    \/ \E input \in ChatInputs : ChatStart(input) /\ UNCHANGED req
    \/ \E c \in 1 .. Len(chats), reply \in ChatReplies : ChatModelOk(c, reply) /\ UNCHANGED req
    \/ \E c \in 1 .. Len(chats), msg \in ErrorMessages : ChatModelFail(c, msg) /\ UNCHANGED req

\* The reminder operations of one session.
Spec == Init /\ [][NextReminders]_vars

\* The same, with the platform's promises: time passes, an outcome is taken,
\* and an alarm that is due is fired however many requests keep coming.
FairSpec ==
    /\ Init /\ [][NextReminders]_vars
    /\ SF_vars(Tick)
    /\ WF_vars(Reply /\ UNCHANGED req)
    /\ SF_vars(AlarmFire /\ UNCHANGED req)

\* The chat operations of one session, under each configuration.
SpecChat == InitChat /\ [][NextChat]_vars

\* The reminder operations, each request kept with its outcome until the
\* caller takes it.
\* The request and its outcome: peeks counts the polls with ack=false made
\* with no other handler in between (2: two or more), peeked is what the
\* first of them returned, ack is the number of notifications the handler
\* acknowledged and afterAck that of the handler before it.
Traced(id, body, param) ==
    req' = [id |-> id, body |-> body, param |-> param,
            peeks |-> IF resp'.op # "due-peek" THEN 0
                      ELSE IF req.peeks = 0 THEN 1 ELSE 2,
            peeked |-> IF resp'.op # "due-peek" THEN <<>>
                       ELSE IF req.peeks = 0 THEN resp'.items ELSE req.peeked,
            ack |-> IF resp'.op = "due-ack" THEN Len(resp'.items) ELSE -1,
            afterAck |-> req.ack, user |-> req.user, made |-> req.made,
            gone |-> req.gone]
Taken == req' = [req EXCEPT !.id = 0, !.body = NoBody, !.param = {}, !.afterAck = -1]

NextTraced ==
    \/ Tick
    \/ Reply /\ Taken
    \/ ListReminders /\ Traced(0, NoBody, {})
    \/ \E param \in Optional({"true", "false"}) : PollDue(param) /\ Traced(0, NoBody, param)
    \/ \E body \in Bodies :
           CreateReminder(body) /\ Traced(0, body, {}) /\ idSeq' <= TracedCreates
    \/ \E id \in PathIds, body \in PatchBodies : UpdateReminder(id, body) /\ Traced(id, body, {})
    \/ \E id \in PathIds : DeleteReminder(id) /\ Traced(id, NoBody, {})
    \/ AlarmFire /\ Traced(0, NoBody, {})

SpecTraced == Init /\ [][NextTraced]_vars

\* One session serving chats and reminders, a few of each.
NextAll ==
    /\ NextReminders \/ NextChat
    /\ idSeq' <= AllCreates
    /\ Len(chats') <= AllChats

SpecAll == Init /\ [][NextAll]_vars

\* ------------------------------------------------- handlers, await by await
\* A reminder handler or alarm() in flight: pc names the await it stands at
\* ("arrived": the request is not delivered yet), list and notifs are its
\* local arrays, t its reading of Date.now(), resp what it returns.
Call(op, id, body, param) ==
    [op |-> op, pc |-> "arrived", id |-> id, body |-> body, param |-> param,
     list |-> <<>>, notifs |-> <<>>, t |-> 0, resp |-> NoResp, stops |-> 0]

\* The bodies these requests carry: a text or none, a numeric at or none.
StepBodies ==
    { b \in Bodies : b.text # {""} /\ \A a \in b.at : a.type = "number" /\ a.ms \subseteq Grid }

\* The awaits on this.state.storage: get("reminders") or, in the poll,
\* get("notifications"); alarm()'s get("notifications"); put("notifications");
\* put("reminders"); setAlarm.  The other await is request.json().
StoragePcs == {"get", "getN", "putN", "put", "setAlarm"}

\* Mutant: alarm() awaits something else than the storage between its awaits.
StorageAwaitButAlarm(f) == f.pc \in StoragePcs /\ f.op # "alarm"

\* f stands at an await of a storage operation.
StorageAwait(f) == f.pc \in StoragePcs

\* The object takes no event (a request, an alarm, the outcome of another
\* await) while a storage operation is awaited.
GateOpen == \A j \in DOMAIN calls : ~StorageAwait(calls[j])
CanRun(i) == \A j \in DOMAIN calls \ {i} : ~StorageAwait(calls[j])

Return(f, s, response) ==
    [call |-> [f EXCEPT !.pc = "done", !.resp = response], store |-> s]
Await(f, s, pc) == [call |-> [f EXCEPT !.pc = pc], store |-> s]

\* f calls scheduleNextAlarm(list) and returns response after it.
Schedule(f, s, list, response) ==
    LET sets == Len(list) # 0 /\ IsFinite(ReduceMin(list, NonFinite))
    IN [call |-> [f EXCEPT !.pc = IF sets THEN "setAlarm" ELSE "done", !.resp = response],
        store |-> [s EXCEPT !.alarm = ScheduleNextAlarm(list, s.alarm)]]

\* Mutant: alarm() stores the reminders that stay before the notifications.
AlarmStepRemindersFirst(f, s, t) ==
    CASE f.pc = "get" -> Await([f EXCEPT !.list = s.reminders], s, "getN")
      [] f.pc = "getN" ->
            LET due == Due(f.list, t)
                g == [f EXCEPT !.t = t, !.notifs = AlarmNotifications(s.notifications, due)]
            IN IF Len(due) > 0
               THEN Await(g, [s EXCEPT !.reminders = Future(f.list, t)], "putN")
               ELSE Await(g, [s EXCEPT !.reminders = Future(f.list, t)], "put")
      [] f.pc = "putN" -> Await(f, [s EXCEPT !.notifications = f.notifs], "put")
      [] f.pc = "put" -> Schedule(f, s, Future(f.list, f.t), [NoResp EXCEPT !.op = "alarm"])
      [] f.pc = "setAlarm" -> Return(f, s, f.resp)

\* alarm(), from the await f stands at to the next one.
AlarmStep(f, s, t) ==
    CASE f.pc = "get" -> Await([f EXCEPT !.list = s.reminders], s, "getN")
      [] f.pc = "getN" ->
            LET due == Due(f.list, t)
                g == [f EXCEPT !.t = t, !.notifs = AlarmNotifications(s.notifications, due)]
            IN IF Len(due) > 0
               THEN Await(g, [s EXCEPT !.notifications = g.notifs], "putN")
               ELSE Await(g, [s EXCEPT !.reminders = Future(f.list, t)], "put")
      [] f.pc = "putN" -> Await(f, [s EXCEPT !.reminders = Future(f.list, f.t)], "put")
      [] f.pc = "put" -> Schedule(f, s, Future(f.list, f.t), [NoResp EXCEPT !.op = "alarm"])
      [] f.pc = "setAlarm" -> Return(f, s, f.resp)

\* POST /reminders
CreateStep(f, s, t, id) ==
    CASE f.pc = "arrived" -> Await(f, s, "json")
      [] f.pc = "json" ->
            IF CreateError(f.body, t) # ""
            THEN Return([f EXCEPT !.t = t], s, Err("create", 400, CreateError(f.body, t)))
            ELSE Await([f EXCEPT !.t = t], s, "get")
      [] f.pc = "get" ->
            LET r == [id |-> id, at |-> Val(WhenMs(Val(f.body.at))), text |-> Val(f.body.text)]
                list == Append(s.reminders, r)
            IN Await([f EXCEPT !.id = id, !.list = list], [s EXCEPT !.reminders = list], "put")
      [] f.pc = "put" -> Schedule(f, s, f.list, Ok("create", <<f.list[Len(f.list)]>>))
      [] f.pc = "setAlarm" -> Return(f, s, f.resp)

\* PATCH /reminders/:id
UpdateStep(f, s) ==
    CASE f.pc = "arrived" ->
            IF f.id = 0 THEN Return(f, s, Err("update", 400, "Missing reminder id"))
            ELSE Await(f, s, "json")
      [] f.pc = "json" -> Await(f, s, "get")
      [] f.pc = "get" ->
            LET idx == FindIndex(s.reminders, f.id) IN
            IF idx = 0 THEN Return(f, s, Err("update", 404, "Reminder not found"))
            ELSE IF f.body.at # {} /\ IsNaN(WhenMs(Val(f.body.at)))
            THEN Return(f, s, Err("update", 400, "Invalid date/time"))
            ELSE LET list == Merge(s.reminders, idx, f.body)
                 IN Await([f EXCEPT !.list = list], [s EXCEPT !.reminders = list], "put")
      [] f.pc = "put" ->
            Schedule(f, s, f.list, Ok("update", <<f.list[FindIndex(f.list, f.id)]>>))
      [] f.pc = "setAlarm" -> Return(f, s, f.resp)

\* DELETE /reminders/:id
DeleteStep(f, s) ==
    CASE f.pc = "arrived" ->
            IF f.id = 0 THEN Return(f, s, Err("delete", 400, "Missing reminder id"))
            ELSE Await(f, s, "get")
      [] f.pc = "get" ->
            LET next == FilterOut(s.reminders, f.id) IN
            IF Len(next) = Len(s.reminders)
            THEN Return(f, s, Err("delete", 404, "Reminder not found"))
            ELSE Await([f EXCEPT !.list = next], [s EXCEPT !.reminders = next], "put")
      [] f.pc = "put" ->
            Schedule(f, s, f.list, [Ok("delete", <<>>) EXCEPT !.deleted = f.id])
      [] f.pc = "setAlarm" -> Return(f, s, f.resp)

\* GET /reminders/due
PollStep(f, s) ==
    CASE f.pc = "arrived" -> Await(f, s, "get")
      [] f.pc = "get" ->
            IF AckOf(f.param)
            THEN Await([f EXCEPT !.notifs = s.notifications],
                       [s EXCEPT !.notifications = AfterPoll(TRUE, s.notifications)], "putN")
            ELSE Return(f, s, Ok("due-peek", s.notifications))
      [] f.pc = "putN" -> Return(f, s, Ok("due-ack", f.notifs))

StepOf(f, s, t, id) ==
    CASE f.op = "alarm" -> AlarmStep(f, s, t)
      [] f.op = "create" -> CreateStep(f, s, t, id)
      [] f.op = "update" -> UpdateStep(f, s)
      [] f.op = "delete" -> DeleteStep(f, s)
      [] f.op = "poll" -> PollStep(f, s)

\* Handlers begun since calls was last empty.
Begun == IF calls = <<>> THEN 0 ELSE Len(hist.ops) + Len(calls)
InFlight(op) == { i \in DOMAIN calls : calls[i].op = op }

\* A handler begins; a request begins alone or while alarm() is in flight.
Enter(f) ==
    /\ resp = NoResp
    /\ Begun < MaxOverlap
    /\ calls = <<>> \/ f.op = "alarm" \/ InFlight("alarm") # {}
    /\ calls' = Append(calls, f)
    /\ hist' = IF calls = <<>> THEN [base |-> Store, ops |-> <<>>] ELSE hist

CreateArrives(body) ==
    /\ idSeq + Cardinality(InFlight("create")) < MaxCreates
    /\ Enter(Call("create", 0, body, {}))
    /\ UNCHANGED <<remVars, resp, pre, chatVars, req, peer, agentVars>>

UpdateArrives(id, body) ==
    /\ Enter(Call("update", id, body, {}))
    /\ UNCHANGED <<remVars, resp, pre, chatVars, req, peer, agentVars>>

DeleteArrives(id) ==
    /\ Enter(Call("delete", id, NoBody, {}))
    /\ UNCHANGED <<remVars, resp, pre, chatVars, req, peer, agentVars>>

PollArrives(param) ==
    /\ Enter(Call("poll", 0, NoBody, param))
    /\ UNCHANGED <<remVars, resp, pre, chatVars, req, peer, agentVars>>

\* The platform starts alarm(): the alarm that fired is no longer set, and
\* the handler stands at its first await.
AlarmBegins ==
    /\ alarm # {}
    /\ now >= Val(alarm)
    /\ GateOpen
    /\ InFlight("alarm") = {}
    /\ Enter([Call("alarm", 0, NoBody, {}) EXCEPT !.pc = "get"])
    /\ alarm' = {}
    /\ UNCHANGED <<reminders, notifications, now, idSeq, acks, resp, pre, chatVars, req, peer, agentVars>>

\* What is kept of a handler that returned: its inputs and its response.
Returns(f) == [f EXCEPT !.list = <<>>, !.notifs = <<>>]

\* The await call i stands at is over (a request that arrived is
\* delivered): it runs to its next await, or returns.
Resume(i) ==
    /\ CanRun(i)
    /\ calls[i].pc # "stopped"
    /\ LET o == StepOf(calls[i], Store, now, NewId)
       IN /\ reminders' = o.store.reminders
          /\ notifications' = o.store.notifications
          /\ alarm' = o.store.alarm
          /\ idSeq' = IF o.call.id # calls[i].id THEN NewId ELSE idSeq
          /\ IF o.call.pc = "done"
             THEN /\ calls' = SubSeq(calls, 1, i - 1) \o SubSeq(calls, i + 1, Len(calls))
                  /\ hist' = [hist EXCEPT !.ops = Append(@, Returns(o.call))]
             ELSE /\ calls' = [calls EXCEPT ![i] = o.call]
                  /\ UNCHANGED hist
    /\ UNCHANGED <<now, acks, resp, pre, chatVars, req, peer, agentVars>>

NextSteps ==
    \/ Tick
    \/ \E body \in StepBodies : CreateArrives(body)
    \/ \E id \in PathIds, body \in StepBodies : UpdateArrives(id, body)
    \/ \E id \in PathIds : DeleteArrives(id)
    \/ \E param \in Optional({"true", "false"}) : PollArrives(param)
    \/ AlarmBegins
    \/ \E i \in DOMAIN calls : Resume(i)

\* The reminder operations of one session with their awaits.
SpecSteps == Init /\ [][NextSteps]_vars

\* alarm() stops at the await of put("notifications"), the write done and
\* put("reminders") not reached: the handler is over without its other writes.
AlarmStops(i) ==
    /\ calls[i].op = "alarm"
    /\ calls[i].pc = "putN"
    /\ calls[i].stops < MaxStops
    /\ CanRun(i)
    /\ calls' = [calls EXCEPT ![i].pc = "stopped", ![i].stops = @ + 1]
    /\ UNCHANGED <<remVars, resp, pre, chatVars, hist, req, peer, agentVars>>

\* The platform runs an alarm() that did not finish once more.
AlarmRepeats(i) ==
    /\ calls[i].op = "alarm"
    /\ calls[i].pc = "stopped"
    /\ GateOpen
    /\ calls' = [calls EXCEPT ![i].pc = "get"]
    /\ UNCHANGED <<remVars, resp, pre, chatVars, hist, req, peer, agentVars>>

NextStops ==
    \/ Tick
    \/ \E body \in { b \in StepBodies : b.text # {} /\ b.at # {} } : CreateArrives(body)
    \/ \E id \in PathIds : DeleteArrives(id)
    \/ \E param \in Optional({"true", "false"}) : PollArrives(param)
    \/ AlarmBegins
    \/ \E i \in DOMAIN calls : Resume(i)
    \/ \E i \in DOMAIN calls : AlarmStops(i)
    \/ \E i \in DOMAIN calls : AlarmRepeats(i)

\* Creates, deletes and polls with their awaits, and an alarm() that may
\* stop between its two writes.
SpecStops == Init /\ [][NextStops]_vars

\* ------------------------------------------------------------------- claims
\* min(at) over a non-empty list.
MinAt(list) ==
    CHOOSE m \in { list[i].at : i \in 1 .. Len(list) } :
        \A i \in 1 .. Len(list) : m <= list[i].at
HeldMin(list, id) ==
    \E i \in 1 .. Len(list) : list[i].id = id /\ list[i].at = MinAt(list)
DeleteDone == resp.op = "delete" /\ resp.status = 200
AlarmDone == resp.op = "alarm"

\* C1: after every operation the armed alarm is min(at) over the stored
\* reminders, and no alarm is armed iff the stored list is empty.
C1_SingleTimer ==
    /\ alarm = {} <=> reminders = <<>>
    /\ reminders # <<>> => alarm = {MinAt(reminders)}

C4_EventualPromotion ==
    \A id \in 1 .. MaxCreates :
        (id \in Ids(reminders)) ~>
            (id \in Ids(notifications) \/ (DeleteDone /\ resp.deleted = id))
\* A later alarm fire promotes a reminder while an earlier one is pending.
C4_Witness ==
    /\ AlarmDone /\ pre.notifications # <<>>
    /\ Len(notifications) > Len(pre.notifications)
    /\ pre.alarm = {MinAt(pre.reminders)}

\* C5: once every chat has returned its reply, the stored memory is the
\* user message and the reply of each chat, pair after pair, in some order
\* of the chats.
ChatPair(c) == <<User(chats[c].input), Assistant(chats[c].reply)>>
RECURSIVE SerialMemories(_)
SerialMemories(cs) ==
    IF cs = {} THEN { <<>> }
    ELSE UNION { { ChatPair(c) \o m : m \in SerialMemories(cs \ {c}) } : c \in cs }
C5_ChatSerialization ==
    (chats # <<>> /\ \A c \in 1 .. Len(chats) : chats[c].pc = "done")
        => memory \in SerialMemories(1 .. Len(chats))

\* C6: once an alarm fire and the createReminder, updateReminder,
\* deleteReminder or pollDue requests that overlapped with it have all
\* returned, the stored reminders, notifications and alarm, and what each
\* of them returned, are those of running them one after the other, in some
\* order, from the storage as it was before the first of them.
ApplyCall(s, f) ==
    CASE f.op = "alarm" -> AlarmHandler(s, f.t)
      [] f.op = "create" -> CreateHandler(s, f.body, f.t, f.id)
      [] f.op = "update" -> UpdateHandler(s, f.id, f.body)
      [] f.op = "delete" -> DeleteHandler(s, f.id)
      [] f.op = "poll" -> PollHandler(s, f.param)
RECURSIVE SerialRun(_, _, _)
SerialRun(s, order, final) ==
    IF order = <<>> THEN s = final
    ELSE LET o == ApplyCall(s, Head(order))
         IN o.resp = Head(order).resp /\ SerialRun(o.store, Tail(order), final)
Orders(ops) ==
    { [i \in DOMAIN ops |-> ops[p[i]]] :
        p \in { q \in [DOMAIN ops -> DOMAIN ops] : \A i, j \in DOMAIN ops : q[i] = q[j] => i = j } }
Returned(op) == { i \in DOMAIN hist.ops : hist.ops[i].op = op }
C6_AlarmSerialization ==
    (calls = <<>> /\ Returned("alarm") # {} /\ Len(hist.ops) > 1)
        => \E order \in Orders(hist.ops) : SerialRun(hist.base, order, Store)
\* A createReminder that arrived while alarm() was awaiting the storage has
\* stored its reminder, and the alarm fire has promoted another.
C6_Witness ==
    /\ calls = <<>> /\ Len(hist.ops) > 1
    /\ hist.ops[1].op = "alarm"
    /\ \E i \in Returned("create") :
          /\ hist.ops[i].resp.status = 200
          /\ hist.ops[i].id \in Ids(reminders)
    /\ Len(notifications) > Len(hist.base.notifications)

\* C7: an alarm fire at instant now leaves in the reminders exactly those
\* stored with at > now, in their order, and appends to the notifications
\* exactly those stored with at <= now, in their order.
C7_AlarmPartition ==
    AlarmDone =>
        /\ reminders = SelectSeq(pre.reminders, LAMBDA r : r.at > now)
        /\ notifications =
              pre.notifications \o SelectSeq(pre.reminders, LAMBDA r : ~(r.at > now))
        /\ SeqToSet(reminders) \cup SeqToSet(notifications)
              = SeqToSet(pre.reminders) \cup SeqToSet(pre.notifications)
\* A fire that promotes one reminder and keeps another.
C7_Witness ==
    /\ AlarmDone /\ reminders # <<>>
    /\ Len(notifications) > Len(pre.notifications)

\* C8: only an alarm fire adds to the stored notifications; createReminder,
\* updateReminder, deleteReminder, listReminders, getMemory and chat, in
\* every step of theirs and whatever their outcome, leave them unchanged.
FrameOps == {"create", "update", "delete", "list", "memory", "chat"}
C8_OnlyAlarmAdds ==
    [][ /\ Len(notifications') > Len(notifications) => resp'.op = "alarm"
        /\ resp'.op \in FrameOps => notifications' = notifications
        /\ chats' # chats => notifications' = notifications ]_vars
\* A chat has stored its reply with a notification pending.
C8_Witness ==
    /\ resp.op = "chat" /\ resp.status = 200
    /\ memory # pre.memory
    /\ notifications # <<>> /\ notifications = pre.notifications

\* C9: a successful delete that leaves the reminders empty leaves no alarm
\* armed.
C9_DeleteLastDisarms == (DeleteDone /\ reminders = <<>>) => alarm = {}

\* C10: a successful delete of the reminder that held the minimum at, with
\* other reminders left, leaves the alarm armed for their minimum at.
C10_DeleteMinRearms ==
    (DeleteDone /\ reminders # <<>> /\ HeldMin(pre.reminders, resp.deleted))
        => alarm = {MinAt(reminders)}
\* The alarm has moved from the deleted reminder's instant to a later one.
C10_Witness ==
    /\ DeleteDone /\ reminders # <<>> /\ HeldMin(pre.reminders, resp.deleted)
    /\ pre.alarm = {MinAt(pre.reminders)}
    /\ MinAt(reminders) > MinAt(pre.reminders)
    /\ alarm = {MinAt(reminders)}

\* C11: a successful create whose at is earlier than the instant the alarm
\* was armed for leaves the alarm armed for that at; one whose at is later
\* leaves the alarm as it was armed.
CreateDone == resp.op = "create" /\ resp.status = 200
C11_CreateMovesAlarm ==
    (CreateDone /\ pre.alarm # {}) =>
        /\ resp.items[1].at < Val(pre.alarm) => alarm = {resp.items[1].at}
        /\ resp.items[1].at > Val(pre.alarm) => alarm = pre.alarm

\* C12: a poll with ack=false made after others, with no other handler in
\* between, returns what the first of them returned, and leaves the stored
\* notifications, the reminders and the alarm as it found them.
PeekDone == resp.op = "due-peek"
C12_IdempotentPeek ==
    PeekDone =>
        /\ resp.items = req.peeked
        /\ notifications = pre.notifications
        /\ reminders = pre.reminders
        /\ alarm = pre.alarm
\* A second peek in a row returns a pending notification.
C12_Witness == PeekDone /\ req.peeks = 2 /\ resp.items # <<>>

\* C13: a poll with ack=true or with no ack parameter returns the stored
\* notifications, all of them, and leaves none stored; the poll made right
\* after it returns none.
AckDone == resp.op = "due-ack"
ListDone == resp.op = "list" /\ resp.status = 200
IsSortedByAt(list) == \A i \in 1 .. Len(list) - 1 : list[i].at <= list[i + 1].at
C14_ListSorted ==
    ListDone =>
        /\ IsSortedByAt(resp.items)
        /\ Len(resp.items) = Len(reminders)
        /\ SeqToSet(resp.items) = SeqToSet(reminders)
        /\ reminders = pre.reminders
\* The stored order is not the order of at.
C14_Witness == ListDone /\ Len(reminders) > 1 /\ ~IsSortedByAt(reminders)

\* C15: a create with a text and an at of now minus the tolerance window
\* is rejected with status 400, and one with an at of now plus the tolerance
\* window is accepted.
CreateAsked == resp.op = "create" /\ ~FalsyText(req.body.text) /\ ~FalsyAt(req.body.at)
ReqAt == WhenMs(Val(req.body.at))
C15_ValidationBoundary ==
    (CreateAsked /\ IsFinite(ReqAt)) =>
        /\ Val(ReqAt) = now - TOLERANCE => resp.status = 400
        /\ Val(ReqAt) = now + TOLERANCE => resp.status = 200

\* C16: a create with no text, no at, an at that does not parse or an at
\* earlier than now minus the tolerance window is rejected; a rejected
\* create returns status 400 and leaves the reminders, the notifications
\* and the alarm as they were; an accepted one returns the reminder it
\* adds, of the text and the instant given, and adds nothing else.
Unchanged ==
    /\ reminders = pre.reminders
    /\ notifications = pre.notifications
    /\ alarm = pre.alarm
CreateInvalid ==
    IF FalsyText(req.body.text) \/ FalsyAt(req.body.at) THEN TRUE
    ELSE IF IsNaN(ReqAt) THEN TRUE
    ELSE Val(ReqAt) < now - TOLERANCE
C16_CreateOutcome ==
    resp.op = "create" =>
        /\ resp.status \in {200, 400}
        /\ CreateInvalid => resp.status = 400
        /\ resp.status = 400 => Unchanged /\ resp.items = <<>> /\ resp.error # ""
        /\ resp.status = 200 =>
              /\ resp.items = << [id |-> resp.items[1].id, at |-> Val(ReqAt),
                                  text |-> Val(req.body.text)] >>
              /\ resp.items[1].id \notin Ids(pre.reminders) \cup Ids(pre.notifications)
              /\ Len(reminders) = Len(pre.reminders) + 1
              /\ SeqToSet(reminders) = SeqToSet(pre.reminders) \cup {resp.items[1]}
              /\ notifications = pre.notifications
\* A past at is rejected with a reminder stored and the alarm armed.
C16_Witness ==
    /\ resp.op = "create" /\ resp.status = 400
    /\ resp.error = "Time must be in the future"
    /\ reminders # <<>> /\ alarm # {}

\* C17: an update of a stored reminder with an at earlier than now minus
\* the tolerance window is rejected with status 400, and leaves the
\* reminders and the alarm as they were.
UpdateAsked == resp.op = "update" /\ req.id \in Ids(pre.reminders)
C17_UpdatePastRejected ==
    (UpdateAsked /\ req.body.at # {} /\ IsFinite(ReqAt) /\ Val(ReqAt) < now - TOLERANCE)
        => resp.status = 400 /\ Unchanged

\* C18: an update or a delete with an id that no stored reminder has
\* returns status 404 and leaves the reminders, the notifications and the
\* alarm as they were.
UnknownId ==
    /\ resp.op \in {"update", "delete"}
    /\ req.id # 0 /\ req.id \notin Ids(pre.reminders)
C18_NotFound == UnknownId => resp.status = 404 /\ Unchanged
\* The id is that of a reminder promoted to the notifications; an update
\* of it asks for a new text.
C18_Witness ==
    /\ UnknownId /\ resp.status = 404 /\ resp.op = "update"
    /\ req.id \in Ids(notifications) /\ req.body.text # {}

\* C19: an update of a stored reminder with an at that does not parse
\* returns status 400 and leaves the reminders, the notifications and the
\* alarm as they were, whatever text it carries.
C19_UpdateUnparseable ==
    (UpdateAsked /\ req.body.at # {} /\ IsNaN(ReqAt)) => resp.status = 400 /\ Unchanged
\* The request carries a text other than the stored one.
C19_Witness ==
    /\ UpdateAsked /\ req.body.at # {} /\ IsNaN(ReqAt) /\ resp.status = 400
    /\ req.body.text # {}
    /\ \E i \in 1 .. Len(reminders) :
          reminders[i].id = req.id /\ reminders[i].text # Val(req.body.text)

\* C20: the models a chat has called are the first candidates, in the
\* order of the list, each but the last having failed as unavailable; once
\* a call has succeeded the chat returns its reply, and calls no candidate
\* after it.
TriedInOrder(f) ==
    /\ Len(f.tried) <= Len(CandidateModels(env))
    /\ \A i \in 1 .. Len(f.tried) : f.tried[i] = CandidateModels(env)[i]
    /\ Len(f.tried) > 1 => Unavailable(f.lastError)
C20_FallbackOrder ==
    /\ \A c \in 1 .. Len(chats) :
          /\ TriedInOrder(chats[c])
          /\ chats[c].pc = "done" <=> chats[c].usedModel # ""
          /\ chats[c].pc = "done" =>
                chats[c].usedModel = CandidateModels(env)[Len(chats[c].tried)]
    /\ (resp.op = "chat" /\ resp.status = 200) =>
          \E c \in 1 .. Len(chats) : chats[c].pc = "done" /\ chats[c].reply = resp.text
\* The first candidate was unavailable, the second answered, and a third
\* was never called.
C20_Witness ==
    /\ Len(CandidateModels(env)) > 2
    /\ resp.op = "chat" /\ resp.status = 200
    /\ \E c \in 1 .. Len(chats) :
          /\ chats[c].pc = "done" /\ chats[c].reply = resp.text
          /\ chats[c].tried = SubSeq(CandidateModels(env), 1, 2)

\* ------------------------------------------------------------ C21, C22
\* The errors of the "model unavailable" class: the message holds
\* "No such model" or "5007".
MissingModel(msg) == msg \in {"No such model", "InferenceUpstreamError: 5007"}

Failed(c) == chats[c].pc = "failed"

\* C21: a chat that ends on a "model unavailable" error has tried every
\* candidate, and fails with the error of the last candidate tried; a
\* failed chat is answered with a 500 that carries the error it failed with.
C21_FallbackExhaustion ==
    /\ \A c \in 1 .. Len(chats) :
          Failed(c) /\ MissingModel(chats[c].err) =>
             /\ chats[c].tried = CandidateModels(env)
             /\ chats[c].thrown = chats[c].err
    /\ resp.op = "chat" /\ resp.status # 200 =>
          /\ resp.status = 500
          /\ \E c \in 1 .. Len(chats) : Failed(c) /\ resp.error = chats[c].thrown

\* Four candidates have failed, the last one on another "missing model"
\* message than the one before it, and the 500 carries the last message.
C21_Witness ==
    \E c \in 1 .. Len(chats) :
        /\ Failed(c)
        /\ Len(chats[c].tried) = 4
        /\ chats[c].err = "InferenceUpstreamError: 5007"
        /\ resp.status = 500
        /\ resp.error = chats[c].err

\* C22: once AI.run has failed with an error that is not of the "model
\* unavailable" class, the chat has failed with that very error and no
\* further candidate is called.
C22_AbortOnOtherError ==
    \A c \in 1 .. Len(chats) :
        chats[c].err # "" /\ ~MissingModel(chats[c].err) =>
            /\ Failed(c)
            /\ chats[c].thrown = chats[c].err

\* The first candidate fails on a capacity error while others are left,
\* and the 500 carries that error.
C22_Witness ==
    \E c \in 1 .. Len(chats) :
        /\ Failed(c)
        /\ chats[c].err = "Capacity temporarily exceeded"
        /\ Len(chats[c].tried) = 1
        /\ Len(CandidateModels(env)) > 1
        /\ resp.status = 500
        /\ resp.error = chats[c].err


\* ----------------------------------------------------------------- C23
NoRepeat(list) == \A i, j \in 1 .. Len(list) : list[i] = list[j] => i = j

\* C23: the candidate list has no empty entry, starts with the configured
\* override when there is one, and within one chat no model is called twice.
C23_CandidatesDeduplicated ==
    LET models == CandidateModels(env)
    IN /\ \A i \in 1 .. Len(models) : models[i] # ""
       /\ Trim(env.MODEL) # "" => models[1] = Trim(env.MODEL)
       /\ \A c \in 1 .. Len(chats) : NoRepeat(chats[c].tried)


\* ----------------------------------------------------------------- C24
\* C24: when a chat is answered with success, the stored memory is the
\* memory stored before the answer followed by the user message of that
\* chat and the assistant message whose content is the returned text.
C24_ChatAppendsPair ==
    resp.op = "chat" /\ resp.status = 200 =>
        \E c \in 1 .. Len(chats) :
            /\ chats[c].pc = "done"
            /\ chats[c].reply = resp.text
            /\ memory = pre.memory \o <<User(chats[c].input), Assistant(resp.text)>>


\* ----------------------------------------------------------------- C25
\* C25: the stored memory holds only user and assistant messages, and the
\* messages a chat hands to each model it calls are the system message,
\* then the memory it read from storage, then its own user message.
C25_SystemNeverStored ==
    /\ \A i \in 1 .. Len(memory) : memory[i].role \in {"user", "assistant"}
    /\ \A c \in 1 .. Len(chats) :
          chats[c].messages = <<SystemMessage>> \o chats[c].stored \o <<User(chats[c].input)>>

\* A chat that found an earlier exchange in storage has been answered by
\* the second model it called, and its answer is stored.
C25_Witness ==
    \E c \in 1 .. Len(chats) :
        /\ chats[c].stored # <<>>
        /\ chats[c].pc = "done"
        /\ Len(chats[c].tried) = 2
        /\ Len(memory) = 4


\* ----------------------------------------------------------------- C27
\* The ids as POST /reminders generates them.  The values
\* Math.random().toString(36).slice(2, 8) takes here, numbered.
Suffixes == 1 .. 2

\* `r-${Date.now()}-${suffix}`: one number for each pair of its two parts,
\* none of them the empty path segment 0.
IdOf(t, suffix) == t * (Cardinality(Suffixes) + 1) + suffix

\* POST /reminders, the id made of the clock and of the random suffix drawn;
\* made keeps the ids given out so far.
CreateWithId(body, suffix) ==
    /\ resp = NoResp
    /\ LET o == CreateHandler(Store, body, now, IdOf(now, suffix))
       IN /\ o.resp.status = 200 => idSeq < MaxCreates
          /\ Finish(o.store, o.resp)
          /\ idSeq' = IF o.resp.status = 200 THEN idSeq + 1 ELSE idSeq
          /\ req' = [req EXCEPT !.made = IF o.resp.status = 200
                                            THEN Append(@, IdOf(now, suffix)) ELSE @]
    /\ UNCHANGED <<now, acks, chatVars, stepVars, peer, agentVars>>

NextIds ==
    \/ Tick
    \/ Reply /\ UNCHANGED req
    \/ \E body \in StepBodies, suffix \in Suffixes : CreateWithId(body, suffix)
    \/ \E id \in Ids(reminders) : DeleteReminder(id) /\ UNCHANGED req
    \/ PollDue({"true"}) /\ UNCHANGED req
    \/ AlarmFire /\ UNCHANGED req

\* The reminder operations of one session, the ids as they are generated.
SpecIds == Init /\ [][NextIds]_vars

\* C27: no id is given out twice in a session, whether the reminder that
\* had it is still listed, was deleted, or was delivered and acknowledged.
C27_UniqueIds ==
    /\ NoRepeat(req.made)
    /\ LET listed == reminders \o notifications
       IN \A i, j \in 1 .. Len(listed) : listed[i].id = listed[j].id => i = j


\* ----------------------------------------------------------------- C28
\* What the last alarm fire put at the end of the notifications.
Delivered == SubSeq(notifications, Len(pre.notifications) + 1, Len(notifications))

\* C28: an alarm fire that delivers a reminder delivers with it every stored
\* reminder of the same `at`, and reminders of the same `at` are delivered
\* in the order of their creation (ids are numbered in that order), whatever
\* was listed before.
C28_TieBreak ==
    AlarmDone =>
        /\ \A i \in 1 .. Len(pre.reminders) :
              (\E j \in 1 .. Len(Delivered) : Delivered[j].at = pre.reminders[i].at)
                  => pre.reminders[i] \in SeqToSet(Delivered)
        /\ \A i, j \in 1 .. Len(Delivered) :
              (i < j /\ Delivered[i].at = Delivered[j].at) => Delivered[i].id < Delivered[j].id

\* One alarm fire has delivered two reminders of the same `at`.
C28_Witness ==
    /\ AlarmDone
    /\ Len(Delivered) = 2
    /\ Delivered[1].at = Delivered[2].at
    /\ Delivered[1].id # Delivered[2].id


\* ----------------------------------------------------------------- C29
\* Creates, updates, deletes and alarm fires, each request kept with its
\* outcome; the creates carry a text and a numeric `at`.
NextUpdates ==
    \/ Tick
    \/ Reply /\ Taken
    \/ \E body \in { b \in StepBodies : b.text # {} /\ b.at # {} } :
          CreateReminder(body) /\ Traced(0, body, {})
    \/ \E id \in PathIds, body \in PatchBodies : UpdateReminder(id, body) /\ Traced(id, body, {})
    \/ \E id \in PathIds : DeleteReminder(id) /\ Traced(id, NoBody, {})
    \/ AlarmFire /\ Traced(0, NoBody, {})

SpecUpdates == Init /\ [][NextUpdates]_vars

UpdateDone == resp.op = "update" /\ resp.status = 200

\* Where the addressed reminder was in the list before the update.
Addressed == CHOOSE i \in 1 .. Len(pre.reminders) : pre.reminders[i].id = req.id

\* C29: after a successful update the list has the same reminders at the
\* same places, but for the addressed one, which keeps its id and place and
\* has the provided fields set and the others as before; with no `at`
\* provided the armed alarm is the one armed before.
C29_UpdateFrame ==
    UpdateDone =>
        /\ Len(reminders) = Len(pre.reminders)
        /\ \A i \in 1 .. Len(reminders) : i # Addressed => reminders[i] = pre.reminders[i]
        /\ reminders[Addressed].id = req.id
        /\ reminders[Addressed].text =
              IF req.body.text # {} THEN Val(req.body.text) ELSE pre.reminders[Addressed].text
        /\ reminders[Addressed].at =
              IF req.body.at # {} THEN Val(ReqAt) ELSE pre.reminders[Addressed].at
        /\ notifications = pre.notifications
        /\ req.body.at = {} => alarm = pre.alarm

\* Only the text of the first of two reminders is updated, the second one
\* being the earlier.
C29_Witness ==
    /\ UpdateDone
    /\ req.body.text # {} /\ req.body.at = {}
    /\ Len(reminders) = 2
    /\ Addressed = 1
    /\ reminders[1].text # pre.reminders[1].text
    /\ reminders[2].at < reminders[1].at
    /\ alarm = {reminders[2].at}


\* ----------------------------------------------------------------- C30
\* The two reads among creates, alarm fires and chats.
NextReads ==
    \/ Tick
    \/ Reply /\ UNCHANGED req
    \/ ListReminders /\ UNCHANGED req
    \/ GetMemory /\ UNCHANGED req
    \/ \E body \in StepBodies : CreateReminder(body) /\ UNCHANGED req
    \/ AlarmFire /\ UNCHANGED req
    \/ \E input \in ChatInputs : ChatStart(input) /\ UNCHANGED req
    \/ \E c \in 1 .. Len(chats), reply \in ChatReplies : ChatModelOk(c, reply) /\ UNCHANGED req

SpecReads == Init /\ [][NextReads]_vars

\* C30: getMemory and listReminders leave the stored memory, the stored
\* reminders in their stored order, the stored notifications and the armed
\* alarm as they found them, and return what is stored (the reminders sorted).
C30_ReadOnly ==
    /\ resp.op \in {"list", "memory"} =>
          /\ memory = pre.memory
          /\ reminders = pre.reminders
          /\ notifications = pre.notifications
          /\ alarm = pre.alarm
    /\ resp.op = "memory" => resp.memory = memory
    /\ resp.op = "list" => SeqToSet(resp.items) = SeqToSet(reminders)

\* A list is returned in another order than the stored one, with a
\* conversation stored and the alarm armed.
C30_Witness ==
    /\ ListDone
    /\ resp.items # reminders
    /\ memory # <<>>
    /\ alarm # {}


\* ----------------------------------------------------------------- C26
\* Two user keys.  The Worker hands each request to the object
\* env.PLANPAL_DO.idFromName(user) names.  The object of "ann" is the one
\* whose storage the variables reminders, notifications, alarm and memory
\* hold; `peer` is the storage of any other object.
Users == {"ann", "bob"}

\* Mutant: every user key names the same object.
OneObject(user) == "ann"

\* env.PLANPAL_DO.idFromName(user): one object per name.
IdFromName(user) == user

Served(user) == IdFromName(user) = IdFromName("ann")

KeyCreates == 1     \* createReminder calls per user key
KeyChats == 1       \* chat requests per user key

PeerStore == [reminders |-> peer.reminders, notifications |-> peer.notifications,
              alarm |-> peer.alarm]

\* A reminder handler or alarm() of the other object ends.
PeerFinish(o) ==
    /\ peer' = [peer EXCEPT !.reminders = o.store.reminders,
                            !.notifications = o.store.notifications,
                            !.alarm = o.store.alarm,
                            !.made = IF o.resp.op = "create" /\ o.resp.status = 200
                                     THEN @ + 1 ELSE @]
    /\ resp' = o.resp
    /\ pre' = [reminders |-> peer.reminders, notifications |-> peer.notifications,
               alarm |-> peer.alarm, memory |-> peer.memory, messages |-> state.messages]
    /\ UNCHANGED <<remVars, chatVars, stepVars, agentVars>>

\* POST /chat of the other object, from the request to the stored reply.
PeerChat(input, reply) ==
    /\ Len(peer.memory) < 2 * KeyChats
    /\ peer' = [peer EXCEPT !.memory = Append(Pushed(@, input), Assistant(reply))]
    /\ resp' = [NoResp EXCEPT !.op = "chat", !.status = 200, !.text = reply]
    /\ pre' = [reminders |-> peer.reminders, notifications |-> peer.notifications,
               alarm |-> peer.alarm, memory |-> peer.memory, messages |-> state.messages]
    /\ UNCHANGED <<remVars, chatVars, stepVars, agentVars>>

\* The user key the request was made for (for alarm(), the key of the
\* object it runs in).
For(user) == req' = [NoReq EXCEPT !.user = user]

CreateFor(user, body) ==
    /\ For(user)
    /\ IF Served(user)
       THEN CreateReminder(body) /\ idSeq' <= KeyCreates
       ELSE /\ resp = NoResp
            /\ LET o == CreateHandler(PeerStore, body, now, peer.made + 1)
               IN (o.resp.status = 200 => peer.made < KeyCreates) /\ PeerFinish(o)

UpdateFor(user, id, body) ==
    /\ For(user)
    /\ IF Served(user)
       THEN UpdateReminder(id, body)
       ELSE resp = NoResp /\ PeerFinish(UpdateHandler(PeerStore, id, body))

DeleteFor(user, id) ==
    /\ For(user)
    /\ IF Served(user)
       THEN DeleteReminder(id)
       ELSE resp = NoResp /\ PeerFinish(DeleteHandler(PeerStore, id))

PollFor(user, param) ==
    /\ For(user)
    /\ IF Served(user)
       THEN PollDue(param)
       ELSE resp = NoResp /\ PeerFinish(PollHandler(PeerStore, param))

ChatFor(user, input, reply) ==
    /\ For(user)
    /\ IF Served(user)
       THEN ChatStart(input) /\ Len(chats') <= KeyChats
       ELSE resp = NoResp /\ PeerChat(input, reply)

PeerAlarmFire ==
    /\ resp = NoResp
    /\ peer.alarm # {}
    /\ now >= Val(peer.alarm)
    /\ PeerFinish(AlarmHandler(PeerStore, now))

KeyBodies == { b \in StepBodies : b.text # {} \/ b.at # {} }
KeyIds == 1 .. KeyCreates

NextKeys ==
    \/ Tick
    \/ Reply /\ req' = NoReq
    \/ \E user \in Users, body \in KeyBodies : CreateFor(user, body)
    \/ \E user \in Users, id \in KeyIds, body \in KeyBodies : UpdateFor(user, id, body)
    \/ \E user \in Users, id \in KeyIds : DeleteFor(user, id)
    \/ \E user \in Users : PollFor(user, {})
    \/ \E user \in Users, input \in ChatInputs, reply \in ChatReplies : ChatFor(user, input, reply)
    \/ \E c \in 1 .. Len(chats), reply \in ChatReplies : ChatModelOk(c, reply) /\ For("ann")
    \/ AlarmFire /\ For("ann")
    \/ PeerAlarmFire /\ For("bob")

\* The sessions of two user keys.
SpecKeys == Init /\ [][NextKeys]_vars

\* C26: a step made for one user key leaves everything the object of the
\* other key holds as it is: its memory, reminders, notifications and alarm
\* (and, for the object followed step by step, its chats in flight).
C26_SessionIsolation ==
    [][ /\ req'.user = "bob" =>
              UNCHANGED <<reminders, notifications, alarm, memory, thisMemory, chats>>
        /\ req'.user = "ann" => peer' = peer ]_vars

\* A reminder of one key has been delivered while the other key has its own
\* reminder stored and its own conversation.
C26_Witness ==
    /\ req.user = "bob"
    /\ resp.op = "alarm"
    /\ peer.notifications # <<>>
    /\ reminders # <<>>
    /\ notifications = <<>>
    /\ memory # <<>>
    /\ peer.memory # memory


\* ----------------------------------------------------------------- C37
\* C37: every reminder stored, pending or delivered, has a text that is not
\* empty and an `at` that is a finite number.
C37_WellFormed ==
    \A r \in SeqToSet(reminders \o notifications) :
        r.text # "" /\ IsFinite(AsNumber(r.at))


\* ----------------------------------------------------------------- C31
\* C31: when a create, an update, a delete or an alarm fire has completed
\* and reminders are stored, the alarm is armed for the smallest `at` among
\* them; an alarm armed for another instant exists only with no reminder
\* stored.
C31_ArmedForMinimum ==
    (resp.op \in {"create", "update", "delete", "alarm"} /\ reminders # <<>>)
        => alarm = {MinAt(reminders)}


\* ----------------------------------------------------------------- C32
\* C32: a chat that fails leaves the stored memory as it found it, and its
\* user message is not stored later either: a stored user message with the
\* input of a failed chat is that of a chat that was answered.
C32_FailedChatPersistsNothing ==
    /\ resp.op = "chat" /\ resp.status = 500 => memory = pre.memory
    /\ \A f \in 1 .. Len(chats) :
          (Failed(f) /\ User(chats[f].input) \in SeqToSet(memory)) =>
              \E c \in 1 .. Len(chats) :
                  chats[c].pc = "done" /\ chats[c].input = chats[f].input


\* ----------------------------------------------------------------- C33
\* C33: an alarm fire that finds no reminder stored leaves the notifications
\* as they were and the reminders empty, and no alarm is armed after it.
C33_EmptyFireNoOp ==
    (AlarmDone /\ pre.reminders = <<>>) =>
        /\ notifications = pre.notifications
        /\ reminders = <<>>
        /\ alarm = {}

\* The alarm left armed by the delete of the only reminder has fired, with
\* a notification pending.
C33_Witness ==
    /\ AlarmDone
    /\ pre.reminders = <<>>
    /\ pre.alarm # {}
    /\ notifications # <<>>


\* ----------------------------------------------------------------- C34
\* C34: an alarm fire that finds reminders stored delivers at least one of
\* them, so that n reminders are delivered by at most n fires.
C34_NoWastedWakeUp ==
    (AlarmDone /\ pre.reminders # <<>>) =>
        /\ Len(notifications) > Len(pre.notifications)
        /\ Len(reminders) < Len(pre.reminders)


\* ----------------------------------------------------------------- C35
\* C35: an alarm fire keeps the notifications stored before it, in their
\* order and ahead of the reminders it delivers; a fire that finds nothing
\* due leaves the stored notifications as they were.
C35_FireKeepsNotifications ==
    AlarmDone =>
        LET kept == Len(pre.notifications) IN
        /\ Len(notifications) >= kept
        /\ SubSeq(notifications, 1, kept) = pre.notifications
        /\ \A i \in kept + 1 .. Len(notifications) :
              /\ notifications[i].at <= now
              /\ \E j \in 1 .. Len(pre.reminders) : pre.reminders[j] = notifications[i]
        /\ (\A j \in 1 .. Len(pre.reminders) : pre.reminders[j].at > now) =>
              notifications = pre.notifications
C35_Witness ==
    /\ AlarmDone
    /\ pre.notifications # <<>>
    /\ Len(notifications) > Len(pre.notifications)


\* ----------------------------------------------------------------- C36
In(list, r) == \E k \in 1 .. Len(list) : list[k] = r
Count(list, r) == Cardinality({ k \in 1 .. Len(list) : list[k] = r })
DueOf(f) == { f.list[k] : k \in { n \in 1 .. Len(f.list) : f.list[n].at <= f.t } }
BetweenWrites(f) == f.op = "alarm" /\ f.pc = "putN"

\* C36: between alarm()'s two writes, and when it stops there, every due
\* reminder is in both stored lists; when alarm() is run again after a stop,
\* a reminder still stored in both lists is added to the notifications once
\* more.
C36_StopLosesNothing ==
    /\ [](\A i \in DOMAIN calls :
            BetweenWrites(calls[i]) =>
                \A r \in DueOf(calls[i]) : In(reminders, r) /\ In(notifications, r))
    /\ [][\A i \in DOMAIN calls, j \in DOMAIN calls' :
            /\ (BetweenWrites(calls[i]) /\ calls'[j].pc = "stopped") =>
                  \A r \in DueOf(calls[i]) : In(reminders', r) /\ In(notifications', r)
            /\ (/\ calls[i].op = "alarm" /\ calls[i].stops > 0 /\ calls[i].pc = "getN"
                /\ BetweenWrites(calls'[j])) =>
                  \A r \in { notifications[k] : k \in 1 .. Len(notifications) } :
                      (In(reminders, r) /\ r.at <= now) =>
                          Count(notifications', r) = Count(notifications, r) + 1]_vars
C36_Witness ==
    \E i \in DOMAIN calls :
        /\ BetweenWrites(calls[i])
        /\ calls[i].stops > 0
        /\ \E r \in DueOf(calls[i]) : Count(notifications, r) = 2


\* ----------------------------------------------------------------- C38
\* A delete kept with its outcome; gone lists the ids deleted so far.
Deleted(id) ==
    req' = [req EXCEPT !.id = id, !.body = NoBody, !.param = {},
                       !.gone = IF resp'.status = 200 THEN Append(@, id) ELSE @]

\* Creates, deletes and alarm fires, each request kept with its outcome.
NextDeletes ==
    \/ Tick
    \/ Reply /\ Taken
    \/ \E body \in StepBodies : CreateReminder(body) /\ Traced(0, body, {})
    \/ \E id \in PathIds : DeleteReminder(id) /\ Deleted(id)
    \/ AlarmFire /\ Traced(0, NoBody, {})

SpecDeletes == Init /\ [][NextDeletes]_vars

MaxPosts == 2       \* POST requests to the Agent in one behaviour
KeepLast == 20      \* ".slice(-20)" in Chat.onRequest

\* Mutant: the first n elements are kept.
SliceFirst(list, n) == IF Len(list) <= n THEN list ELSE SubSeq(list, 1, n)

\* list.slice(-n)
Slice(list, n) == IF Len(list) <= n THEN list ELSE SubSeq(list, Len(list) - n + 1, Len(list))

\* A conversation of n messages, as either variant stores it.
History(n) == [k \in 1 .. n |-> IF k % 2 = 1 THEN User("u2") ELSE Assistant("a2")]
Histories == { History(n) : n \in {0, KeepLast - 2, KeepLast} }

\* Both variants with a conversation stored already.
InitAgent ==
    /\ reminders = <<>>
    /\ notifications = <<>>
    /\ alarm = {}
    /\ \E h \in Histories :
          /\ memory = h
          /\ state = [initialState EXCEPT !.messages = h]
    /\ thisMemory = <<>>
    /\ chats = <<>>
    /\ posts = <<>>
    /\ now = StartTime
    /\ idSeq = 0
    /\ resp = NoResp
    /\ pre = NoPre
    /\ acks = [id \in 1 .. MaxCreates |-> 0]
    /\ calls = <<>>
    /\ req = NoReq
    /\ peer = NoPeer
    /\ hist = [base |-> [reminders |-> <<>>, notifications |-> <<>>, alarm |-> {}],
               ops |-> <<>>]
    /\ env = [MODEL |-> "", MODEL_FALLBACKS |-> <<"">>]

\* The bodies of the Agent's POST requests: an input or none, a user or none.
AgentBodies == [input : Optional({" ", "u1"}), user : Optional({"ann"})]

\* Chat.onRequest up to the await of AI.run: the user is kept in the state
\* when none is, and the prompt is built from the state's messages.
AgentPost(body) ==
    /\ resp = NoResp
    /\ Len(posts) < MaxPosts
    /\ LET input == Trim(IF body.input = {} THEN "" ELSE Val(body.input))
           user == IF body.user = {} THEN "default-user" ELSE Val(body.user)
           messages == <<SystemMessage>> \o state.messages
                          \o (IF input # "" THEN <<User(input)>> ELSE <<>>)
       IN /\ state' = IF state.user = {} THEN [state EXCEPT !.user = {user}] ELSE state
          /\ posts' = Append(posts, [pc |-> "ai", input |-> input, messages |-> messages])
    /\ UNCHANGED <<remVars, chatVars, stepVars, peer, resp, pre>>

\* AI.run of request c resolves: setState with the last KeepLast of the
\* state's messages, the user message and the assistant message.
AgentReplyOk(c, response) ==
    /\ resp = NoResp
    /\ posts[c].pc = "ai"
    /\ LET assistantMessage == IF response = "" THEN "No response received" ELSE response
       IN /\ state' = [state EXCEPT !.messages =
                          Slice(state.messages \o <<User(posts[c].input),
                                                     Assistant(assistantMessage)>>, KeepLast)]
          /\ resp' = [NoResp EXCEPT !.op = "agent", !.status = 200, !.text = assistantMessage]
    /\ posts' = [posts EXCEPT ![c].pc = "done"]
    /\ pre' = Snapshot
    /\ UNCHANGED <<remVars, chatVars, stepVars, peer>>

\* AI.run of request c rejects: the catch answers 500, the state is kept.
AgentReplyFail(c, msg) ==
    /\ resp = NoResp
    /\ posts[c].pc = "ai"
    /\ posts' = [posts EXCEPT ![c].pc = "failed"]
    /\ resp' = [NoResp EXCEPT !.op = "agent", !.status = 500, !.error = msg]
    /\ pre' = Snapshot
    /\ UNCHANGED <<remVars, chatVars, stepVars, peer, state>>

\* The request whose outcome resp is.
Answered(c) == req' = [NoReq EXCEPT !.id = c]

NextAgent ==
    \/ Reply /\ UNCHANGED req
    \/ \E body \in AgentBodies : AgentPost(body) /\ UNCHANGED req
    \/ \E c \in 1 .. Len(posts), response \in {"", "a1"} : AgentReplyOk(c, response) /\ Answered(c)
    \/ \E c \in 1 .. Len(posts) : AgentReplyFail(c, "Capacity temporarily exceeded") /\ Answered(c)
    \/ \E input \in ChatInputs : ChatStart(input) /\ UNCHANGED req
    \/ \E c \in 1 .. Len(chats), reply \in ChatReplies : ChatModelOk(c, reply) /\ Answered(c)

\* The chats of the two variants, each from a conversation stored already.
SpecAgent == InitAgent /\ [][NextAgent]_vars

AgentDone == resp.op = "agent" /\ resp.status = 200
IsPrefix(s, t) == Len(s) <= Len(t) /\ SubSeq(t, 1, Len(s)) = s

\* C39: after a successful chat of the Agent variant its messages are at
\* most 20, the last 20 of the messages before it, the user message and the
\* assistant message; after a successful chat of the Durable Object the
\* stored memory is the memory before it and more, whatever its length.
C39_AgentKeepsLast20 ==
    /\ AgentDone =>
          LET all == pre.messages \o <<User(posts[req.id].input), Assistant(resp.text)>>
          IN /\ Len(state.messages) <= KeepLast
             /\ Len(state.messages) = IF Len(all) < KeepLast THEN Len(all) ELSE KeepLast
             /\ \A k \in 1 .. Len(state.messages) :
                   state.messages[k] = all[Len(all) - Len(state.messages) + k]
    /\ (resp.op = "chat" /\ resp.status = 200) =>
          /\ IsPrefix(pre.memory, memory)
          /\ Len(memory) > Len(pre.memory)
C39_Witness ==
    /\ AgentDone
    /\ Len(pre.messages) = KeepLast
    /\ Len(state.messages) = KeepLast
    /\ state.messages # pre.messages
    /\ Len(memory) > KeepLast

=============================================================================
